---- MODULE Spec2Model ----
(***************************************************************************)
(* Model of pixi-docker: the configuration merge of                         *)
(* DockerfileGenerator::generate / generate_all (src/src/template.rs), the  *)
(* project metadata reader PixiToml (src/src/pixi.rs), and the three        *)
(* commands generate_dockerfiles, build_docker_image and                    *)
(* run_docker_container (src/src/main.rs), the last one with its            *)
(* classification of the trailing docker arguments.                         *)
(*                                                                         *)
(* Strings that the code only stores, compares and formats are TLA+         *)
(* strings; format!("{}:{}", a, b) is a \o ":" \o b.  The trailing docker   *)
(* arguments, whose characters the code inspects (starts_with('-'),         *)
(* contains('=')), are sequences of one-character strings.                  *)
(* Option<T> is a sequence of length at most one: None is <<>>, Some(v) is  *)
(* <<v>>.  Result<T> is a record with the field ok.                         *)
(***************************************************************************)
EXTENDS Integers, Sequences, FiniteSets, TLC

VARIABLES
    configFile,     \* the file at config_path: [exists, parsed : Option<Config>]
    pixiFile,       \* the file pixi.toml: [exists, parsed : Option<PixiToml>]
    templateFiles,  \* [explicit, conventional : Option<String>], readable contents
    iterOrder,      \* iteration order of the HashMap config.environments,
                    \* drawn when the map is built
    badEnvs,        \* environments whose context the template engine rejects
    cli,            \* the parsed command line
    pc,             \* position in the running command
    config,         \* local `config` : Option<Config>, None until loaded
    environment,    \* local `environment` (build, run)
    template_content, \* DockerfileGenerator.template_content
    effective,      \* the locals generate computed before rendering
    out,            \* the Result of the last generate call
    dockerfiles,    \* generate_all's vector of (filename, content)
    cursor,         \* index of the next element of a loop
    files,          \* the Dockerfiles written so far, in order: <<name, content>>
    image_tag,      \* local `image_tag` : Option<String>
    docker_options, \* classifier: the runtime options
    container_command, \* classifier: the container command
    expecting_value,   \* classifier: the flag of the same name
    docker_cmd,     \* the arguments handed to Command::new("docker")
    invocations,    \* the docker command lines that were run
    dockerStatus,   \* what running docker gave: None until it is run
    result          \* the command's outcome

vars == <<configFile, pixiFile, templateFiles, iterOrder, badEnvs, cli, pc,
          config, environment, template_content, effective, out, dockerfiles, cursor,
          files, image_tag, docker_options, container_command, expecting_value,
          docker_cmd, invocations, dockerStatus, result>>

---------------------------------------------------------------------------
(* Option and Result *)

None == <<>>
Some(v) == <<v>>
IsSome(o) == Len(o) > 0
Unwrap(o) == o[1]
\* Option::or / Option::or_else
OptOr(a, b) == IF IsSome(a) THEN a ELSE b
\* Option::unwrap_or / unwrap_or_else
UnwrapOr(o, d) == IF IsSome(o) THEN o[1] ELSE d

Ok(v) == [ok |-> TRUE, val |-> v]
Err(e) == [ok |-> FALSE, err |-> e]

\* HashMap::get
MapGet(m, k) == IF k \in DOMAIN m THEN Some(m[k]) ELSE None

---------------------------------------------------------------------------
(* Bounds of the model *)

\* Longest ports list of a configuration.
MaxPorts == 2
\* Longest copy_files list of a configuration.
MaxCopy == 1
\* Number of environment names that may carry an overlay.
MaxEnvs == 3
\* Longest list of trailing docker arguments.
MaxTokens == 4

---------------------------------------------------------------------------
(* src/src/pixi.rs : the project metadata reader *)

\* A file that is read and deserialized: read_to_string fails when the file
\* does not exist, toml::from_str fails when `parsed` is None (the file is
\* unreadable or does not deserialize into the type).
from_file(file) ==
    IF ~file.exists THEN Err("read")
    ELSE IF ~IsSome(file.parsed) THEN Err("parse")
    ELSE Ok(Unwrap(file.parsed))

\* Option::and_then(|s| s.<field>.as_ref()) on an optional section
SectionField(section, field) ==
    IF IsSome(section) THEN Unwrap(section)[field] ELSE None

\* (mutant) the [project] table is consulted only when there is no
\* [workspace] table
get_name_workspace_table_only(pixi_toml) ==
    IF IsSome(pixi_toml.workspace)
    THEN SectionField(pixi_toml.workspace, "name")
    ELSE SectionField(pixi_toml.project, "name")

get_name(pixi_toml) ==
    OptOr(SectionField(pixi_toml.workspace, "name"),
          SectionField(pixi_toml.project, "name"))

get_version(pixi_toml) ==
    OptOr(SectionField(pixi_toml.workspace, "version"),
          SectionField(pixi_toml.project, "version"))

\* (mutant) only tasks declared as a bare string have a command
get_task_command_simple_only(pixi_toml, task_name) ==
    IF task_name \in DOMAIN pixi_toml.tasks
    THEN LET task == pixi_toml.tasks[task_name]
         IN  IF task.kind = "Simple" THEN Some(task.cmd) ELSE None
    ELSE None

get_task_command(pixi_toml, task_name) ==
    IF task_name \in DOMAIN pixi_toml.tasks
    THEN LET task == pixi_toml.tasks[task_name]
         IN  IF task.kind = "Simple" THEN Some(task.cmd)
             ELSE Some(task.config.cmd)
    ELSE None

translate_task_to_shell(pixi_toml, task_name) ==
    LET command == get_task_command(pixi_toml, task_name)
    IN  IF IsSome(command) THEN Some(Unwrap(command)) ELSE None

---------------------------------------------------------------------------
(* src/src/template.rs : DockerfileGenerator *)

\* include_str!(".../templates/Dockerfile.j2"): the compiled-in template
default_template == "builtin:Dockerfile.j2"

\* (mutant) a configured template that cannot be read falls back to the
\* conventional path first
with_template_path_conventional_fallback(template_path) ==
    IF IsSome(template_path) /\ IsSome(templateFiles.explicit)
    THEN Unwrap(templateFiles.explicit)
    ELSE IF templateFiles.conventional_exists
         THEN UnwrapOr(templateFiles.conventional, default_template)
         ELSE default_template

\* fs::read_to_string of a template file; None when missing or unreadable
with_template_path(template_path) ==
    IF IsSome(template_path)
    THEN UnwrapOr(templateFiles.explicit, default_template)
    ELSE IF templateFiles.conventional_exists
         THEN UnwrapOr(templateFiles.conventional, default_template)
         ELSE default_template

\* generate, line 39: the environment a generation is for
generate_environment(cfg, env) == UnwrapOr(env, cfg.docker.environment)

\* (mutant) the lookup falls back to some overlay when the name has none
generate_env_config_any(cfg, env) ==
    IF generate_environment(cfg, env) \in DOMAIN cfg.environments
    THEN Some(cfg.environments[generate_environment(cfg, env)])
    ELSE IF DOMAIN cfg.environments # {}
         THEN Some(cfg.environments[CHOOSE k \in DOMAIN cfg.environments : TRUE])
         ELSE None

\* generate, line 41
generate_env_config(cfg, env) ==
    MapGet(cfg.environments, generate_environment(cfg, env))

\* (mutant) an overlay's ports are taken even when the list is empty
generate_ports_no_empty_check(cfg, env) ==
    LET env_config == generate_env_config(cfg, env)
    IN  IF IsSome(env_config) THEN Unwrap(env_config).ports
        ELSE cfg.docker.ports

generate_ports(cfg, env) ==
    LET env_config == generate_env_config(cfg, env)
    IN  IF IsSome(env_config)
        THEN IF Unwrap(env_config).ports # <<>>
             THEN Unwrap(env_config).ports
             ELSE cfg.docker.ports
        ELSE cfg.docker.ports

generate_entrypoint(cfg, env) ==
    LET env_config == generate_env_config(cfg, env)
    IN  IF IsSome(env_config)
        THEN OptOr(Unwrap(env_config).entrypoint, cfg.docker.entrypoint)
        ELSE cfg.docker.entrypoint

generate_copy_files(cfg, env) ==
    LET env_config == generate_env_config(cfg, env)
    IN  IF IsSome(env_config)
        THEN IF Unwrap(env_config).copy_files # <<>>
             THEN Unwrap(env_config).copy_files
             ELSE cfg.docker.copy_files
        ELSE cfg.docker.copy_files

generate_build_command(cfg, env) ==
    LET env_config == generate_env_config(cfg, env)
    IN  IF IsSome(env_config)
        THEN OptOr(Unwrap(env_config).build_command, cfg.docker.build_command)
        ELSE cfg.docker.build_command

\* (mutant) the overlay's flag is or-ed with the global flag
generate_multi_stage_or(cfg, env) ==
    LET env_config == generate_env_config(cfg, env)
    IN  IF IsSome(env_config)
        THEN UnwrapOr(Unwrap(env_config).multi_stage, FALSE)
                \/ cfg.docker.multi_stage
        ELSE cfg.docker.multi_stage

generate_multi_stage(cfg, env) ==
    LET env_config == generate_env_config(cfg, env)
    IN  IF IsSome(env_config)
        THEN UnwrapOr(Unwrap(env_config).multi_stage, cfg.docker.multi_stage)
        ELSE cfg.docker.multi_stage

generate_base_image(cfg, env) ==
    LET env_config == generate_env_config(cfg, env)
    IN  IF IsSome(env_config)
        THEN OptOr(Unwrap(env_config).base_image, cfg.docker.base_image)
        ELSE cfg.docker.base_image

\* generate, lines 87-102: the entrypoint with a task name replaced by the
\* task's command when pixi.toml is there, parses and has the task
translated_entrypoint(cfg, env) ==
    LET entrypoint == generate_entrypoint(cfg, env)
    IN  IF IsSome(entrypoint)
        THEN IF pixiFile.exists
             THEN LET pixi_toml == from_file(pixiFile)
                  IN  IF pixi_toml.ok
                      THEN UnwrapOr(translate_task_to_shell(pixi_toml.val,
                                                            Unwrap(entrypoint)),
                                    Unwrap(entrypoint))
                      ELSE Unwrap(entrypoint)
             ELSE Unwrap(entrypoint)
        ELSE ""

\* generate, lines 107-116: the context! handed to the template
generate_context(cfg, env) ==
    [ environment   |-> generate_environment(cfg, env),
      ports         |-> generate_ports(cfg, env),
      entrypoint    |-> IF translated_entrypoint(cfg, env) = "" THEN None
                        ELSE Some(translated_entrypoint(cfg, env)),
      copy_files    |-> generate_copy_files(cfg, env),
      pixi_version  |-> cfg.docker.pixi_version,
      build_command |-> generate_build_command(cfg, env),
      multi_stage   |-> generate_multi_stage(cfg, env),
      base_image    |-> generate_base_image(cfg, env) ]

\* The template engine (minijinja), a pure function of the template text and
\* the context: add_template / render either reject the pair or produce the
\* text.  badEnvs holds the environments whose context the loaded template
\* rejects; the text is identified by what it was rendered from.
render(template, context) ==
    IF context.environment \in badEnvs THEN Err("render")
    ELSE Ok([template |-> template, context |-> context])

generate(template, cfg, env) == render(template, generate_context(cfg, env))

\* generate, lines 39-102: the locals computed before the template is rendered
generate_locals(cfg, env) ==
    [ environment   |-> generate_environment(cfg, env),
      ports         |-> generate_ports(cfg, env),
      entrypoint    |-> generate_entrypoint(cfg, env),
      copy_files    |-> generate_copy_files(cfg, env),
      build_command |-> generate_build_command(cfg, env),
      multi_stage   |-> generate_multi_stage(cfg, env),
      base_image    |-> generate_base_image(cfg, env),
      translated_entrypoint |-> translated_entrypoint(cfg, env) ]

---------------------------------------------------------------------------
(* The inputs the specifications draw from *)

\* The first n ports counted from `first`.
PortSeq(first, n) == [k \in 1..n |-> first + k - 1]
GlobalPorts == {PortSeq(8080, n) : n \in 0..MaxPorts}
OverlayPorts == {PortSeq(3000, n) : n \in 0..MaxPorts}

CopyPool == <<"app/", "src/", "tests/", "docs/", "conf/", "bin/">>
GlobalCopy == {SubSeq(CopyPool, 1, n) : n \in 0..MaxCopy}
OverlayCopy == {SubSeq(CopyPool, 2, n + 1) : n \in 0..MaxCopy}

\* Environment names; the first is the default environment of every
\* configuration, the first MaxEnvs may carry an overlay.
EnvPool == <<"prod", "dev", "test", "stage", "qa">>
OverlayNames == {EnvPool[k] : k \in 1..MaxEnvs}

\* [docker] tables that differ in the fields an overlay can override.
DockerConfigs ==
    [ environment   : {"prod"},
      ports         : GlobalPorts,
      entrypoint    : {None, Some("serve")},
      copy_files    : GlobalCopy,
      image_name    : {None},
      image_tag     : {None},
      pixi_version  : {Some("0.40.0")},
      build_command : {None, Some("build")},
      multi_stage   : BOOLEAN,
      base_image    : {None, Some("ubuntu:24.04")},
      template_path : {None} ]

\* [environments.<name>] tables.
Overlays ==
    [ ports         : OverlayPorts,
      entrypoint    : {None, Some("dev")},
      copy_files    : OverlayCopy,
      build_command : {None, Some("dev-build")},
      multi_stage   : {None, Some(TRUE), Some(FALSE)},
      base_image    : {None, Some("debian:12")} ]

\* The test configuration of template.rs (create_test_config), [docker] part.
TestDocker ==
    [ environment   |-> "prod",
      ports         |-> <<8080>>,
      entrypoint    |-> Some("serve"),
      copy_files    |-> <<"app/">>,
      image_name    |-> None,
      image_tag     |-> None,
      pixi_version  |-> Some("0.40.0"),
      build_command |-> Some("build"),
      multi_stage   |-> TRUE,
      base_image    |-> Some("ubuntu:24.04"),
      template_path |-> None ]

\* ... and its "dev" overlay.
TestOverlay ==
    [ ports         |-> <<3000>>,
      entrypoint    |-> Some("dev"),
      copy_files    |-> <<"src/", "tests/">>,
      build_command |-> None,
      multi_stage   |-> Some(FALSE),
      base_image    |-> None ]

\* An overlay that overrides nothing (EnvironmentConfig::default()).
EmptyOverlay ==
    [ ports         |-> <<>>,
      entrypoint    |-> None,
      copy_files    |-> <<>>,
      build_command |-> None,
      multi_stage   |-> None,
      base_image    |-> None ]

\* pixi.toml: no file, a file that does not deserialize, and parsed files.
NoFile == [exists |-> FALSE, parsed |-> None]
BadFile == [exists |-> TRUE, parsed |-> None]
GoodFile(content) == [exists |-> TRUE, parsed |-> Some(content)]

Sections ==
    {None} \cup {Some([name |-> n, version |-> v]) :
                    n \in {None, Some("my-awesome-app")},
                    v \in {None, Some("2.1.0")}}
ProjectSections ==
    {None} \cup {Some([name |-> n, version |-> v]) :
                    n \in {None, Some("my-project")},
                    v \in {None, Some("1.0.0")}}

SimpleTask(cmd) == [kind |-> "Simple", cmd |-> cmd]
ComplexTask(cmd) ==
    [kind |-> "Complex", config |-> [cmd |-> cmd, depends_on |-> None]]
TaskTables ==
    { <<>>,
      [t \in {"serve"} |-> SimpleTask("python src/main.py")],
      [t \in {"serve"} |-> ComplexTask("python -m server")],
      [t \in {"dev"} |-> SimpleTask("")],
      [t \in {"serve", "dev"} |->
          IF t = "serve" THEN SimpleTask("python src/main.py")
          ELSE ComplexTask("python src/main.py --reload")] }

\* pixi.toml files that differ in their task table only.
TaskFiles ==
    {NoFile, BadFile} \cup
    {GoodFile([workspace |-> None, project |-> None, tasks |-> t]) :
        t \in TaskTables}

\* pixi.toml files that differ in their name and version only.
MetadataFiles ==
    {NoFile, BadFile} \cup
    {GoodFile([workspace |-> w, project |-> p, tasks |-> <<>>]) :
        w \in Sections, p \in ProjectSections}

NoTemplates ==
    [explicit |-> None, conventional_exists |-> FALSE, conventional |-> None]

NoCli ==
    [ command |-> "none", environment |-> None,
      tag |-> None, all |-> FALSE, no_cache |-> FALSE, platform |-> None,
      extra_args |-> <<>>, docker_args |-> <<>> ]

\* The locals of a command that has not started.
Started ==
    /\ pc = "start"
    /\ environment = ""
    /\ effective = None
    /\ out = None
    /\ dockerfiles = <<>>
    /\ cursor = 0
    /\ files = <<>>
    /\ image_tag = None
    /\ docker_options = <<>>
    /\ container_command = <<>>
    /\ expecting_value = FALSE
    /\ docker_cmd = <<>>
    /\ invocations = <<>>
    /\ result = "running"

---------------------------------------------------------------------------
(* SpecResolve: DockerfileGenerator::generate as a function of the          *)
(* configuration, the selected environment and pixi.toml                    *)

\* Configurations with at most the overlay "dev", over every combination of
\* the overridable fields; pixi.toml absent.
InitResolveMerge ==
    /\ \E d \in DockerConfigs :
         \/ config = Some([docker |-> d, environments |-> <<>>])
         \/ \E o \in Overlays :
              config = Some([docker |-> d,
                             environments |-> [e \in {"dev"} |-> o]])
    /\ pixiFile = NoFile
    /\ badEnvs = {}

\* Configurations that differ in their entrypoints, over every pixi.toml
\* task table, with templates that reject some environments.
InitResolveTasks ==
    /\ \E g \in {None, Some("serve"), Some("bash run.sh")},
          o \in {None, Some("serve"), Some("dev")} :
         \/ config = Some([docker |-> [TestDocker EXCEPT !.entrypoint = g],
                           environments |-> <<>>])
         \/ config = Some([docker |-> [TestDocker EXCEPT !.entrypoint = g],
                           environments |->
                              [e \in {"dev"} |->
                                  [TestOverlay EXCEPT !.entrypoint = o]]])
    /\ pixiFile \in TaskFiles
    /\ badEnvs \in SUBSET {"prod", "dev"}

InitResolve ==
    /\ InitResolveMerge \/ InitResolveTasks
    /\ \E e \in {None, Some("dev"), Some("ghost")} :
         cli = [NoCli EXCEPT !.command = "generate()", !.environment = e]
    /\ configFile = [exists |-> TRUE, parsed |-> config]
    /\ templateFiles = NoTemplates
    /\ template_content = with_template_path(None)
    /\ iterOrder = <<>>
    /\ dockerStatus = None
    /\ Started

\* generator.generate(&config, environment)
call_generate ==
    /\ pc = "start"
    /\ effective' = Some(generate_locals(Unwrap(config), cli.environment))
    /\ out' = Some(generate(template_content, Unwrap(config), cli.environment))
    /\ result' = IF generate(template_content, Unwrap(config),
                             cli.environment).ok
                 THEN "ok" ELSE "err:render"
    /\ pc' = "done"
    /\ UNCHANGED <<configFile, pixiFile, templateFiles, iterOrder, badEnvs, cli,
                   config, environment, template_content, dockerfiles, cursor,
                   files, image_tag, docker_options, container_command,
                   expecting_value, docker_cmd, invocations, dockerStatus>>

NextResolve == call_generate

SpecResolve == InitResolve /\ [][NextResolve]_vars

---------------------------------------------------------------------------
(* Claims about the merge of generate (checked under SpecResolve) *)

\* The loaded configuration.
Cfg == Unwrap(config)

\* The overlay of the environment the finished generation was for, if any.
SelectedOverlay == MapGet(Cfg.environments, Unwrap(effective).environment)

\* C5: a generation for an environment name that has no overlay entry (an
\* unknown name included) always produces its settings, and the effective
\* ports, entrypoint, copy list, build command, multi-stage flag and base
\* image are the global settings' values verbatim.
C5_NoOverlayYieldsGlobals ==
    pc = "done" =>
        /\ IsSome(effective)
        /\ ~IsSome(SelectedOverlay) =>
              /\ Unwrap(effective).ports = Cfg.docker.ports
              /\ Unwrap(effective).entrypoint = Cfg.docker.entrypoint
              /\ Unwrap(effective).copy_files = Cfg.docker.copy_files
              /\ Unwrap(effective).build_command = Cfg.docker.build_command
              /\ Unwrap(effective).multi_stage = Cfg.docker.multi_stage
              /\ Unwrap(effective).base_image = Cfg.docker.base_image

\* An unknown environment was selected while another environment has an
\* overlay that overrides the ports and the multi-stage flag.
C5_Witness ==
    /\ pc = "done"
    /\ cli.environment = Some("ghost")
    /\ "dev" \in DOMAIN Cfg.environments
    /\ Cfg.environments["dev"].ports = <<3000>>
    /\ Cfg.environments["dev"].multi_stage = Some(FALSE)
    /\ Cfg.docker.multi_stage
    /\ Unwrap(effective).ports = <<8080>>
    /\ Unwrap(effective).multi_stage

\* C6: for ports and copy_files, an overlay list with at least one element is
\* the effective list exactly, whatever the global list; an empty overlay
\* list leaves the global list in effect.
C6_ListFieldsMerge ==
    (pc = "done" /\ IsSome(SelectedOverlay)) =>
        LET o == Unwrap(SelectedOverlay)
            e == Unwrap(effective)
        IN  /\ Len(o.ports) >= 1 => e.ports = o.ports
            /\ Len(o.ports) = 0 => e.ports = Cfg.docker.ports
            /\ Len(o.copy_files) >= 1 => e.copy_files = o.copy_files
            /\ Len(o.copy_files) = 0 => e.copy_files = Cfg.docker.copy_files

\* An overlay with ports and no copy list met non-empty global lists.
C6_Witness ==
    /\ pc = "done"
    /\ IsSome(SelectedOverlay)
    /\ Unwrap(SelectedOverlay).ports = <<3000, 3001>>
    /\ Unwrap(SelectedOverlay).copy_files = <<>>
    /\ Cfg.docker.ports = <<8080>>
    /\ Cfg.docker.copy_files = <<"app/">>
    /\ Unwrap(effective).ports = <<3000, 3001>>
    /\ Unwrap(effective).copy_files = <<"app/">>

\* C7: for entrypoint, build_command, base_image and multi_stage, a value the
\* selected environment's overlay sets wins (an explicit false over a global
\* true, an explicit true over a global false); an unset one leaves the
\* global value.
C7_OptionalFieldsMerge ==
    (pc = "done" /\ IsSome(SelectedOverlay)) =>
        LET o == Unwrap(SelectedOverlay)
            e == Unwrap(effective)
            g == Cfg.docker
        IN  /\ e.entrypoint =
                 IF IsSome(o.entrypoint) THEN o.entrypoint ELSE g.entrypoint
            /\ e.build_command =
                 IF IsSome(o.build_command) THEN o.build_command
                 ELSE g.build_command
            /\ e.base_image =
                 IF IsSome(o.base_image) THEN o.base_image ELSE g.base_image
            /\ e.multi_stage =
                 IF IsSome(o.multi_stage) THEN Unwrap(o.multi_stage)
                 ELSE g.multi_stage

\* An overlay with multi_stage = false and no base image met a global
\* multi_stage = true with a base image.
C7_Witness ==
    /\ pc = "done"
    /\ IsSome(SelectedOverlay)
    /\ Unwrap(SelectedOverlay).multi_stage = Some(FALSE)
    /\ Unwrap(SelectedOverlay).base_image = None
    /\ Cfg.docker.multi_stage
    /\ Cfg.docker.base_image = Some("ubuntu:24.04")
    /\ ~Unwrap(effective).multi_stage
    /\ Unwrap(effective).base_image = Some("ubuntu:24.04")

\* The task table of pixi.toml when the file exists and parses, else empty.
ReadableTasks ==
    IF pixiFile.exists /\ IsSome(pixiFile.parsed)
    THEN Unwrap(pixiFile.parsed).tasks ELSE <<>>

\* The command text of a task, bare string or record with cmd.
TaskText(task) == IF task.kind = "Simple" THEN task.cmd ELSE task.config.cmd

\* C8: the translated entrypoint is the empty string when the effective
\* entrypoint is absent, the task's command text when pixi.toml exists,
\* parses and has a task of that name (bare string or record with cmd), and
\* the entrypoint verbatim otherwise; a missing or malformed pixi.toml does
\* not make the generation fail.
C8_EntrypointTranslation ==
    pc = "done" =>
        LET e == Unwrap(effective)
        IN  /\ ~IsSome(e.entrypoint) => e.translated_entrypoint = ""
            /\ IsSome(e.entrypoint) =>
                 e.translated_entrypoint =
                    IF Unwrap(e.entrypoint) \in DOMAIN ReadableTasks
                    THEN TaskText(ReadableTasks[Unwrap(e.entrypoint)])
                    ELSE Unwrap(e.entrypoint)
            /\ (pixiFile \in {NoFile, BadFile} /\ e.environment \notin badEnvs)
                 => (result = "ok" /\ Unwrap(out).ok)

\* The entrypoint names a task declared as a record with cmd.
C8_Witness ==
    /\ pc = "done"
    /\ Unwrap(effective).entrypoint = Some("serve")
    /\ "serve" \in DOMAIN ReadableTasks
    /\ ReadableTasks["serve"].kind = "Complex"
    /\ Unwrap(effective).translated_entrypoint = "python -m server"
    /\ Unwrap(out).val.context.entrypoint = Some("python -m server")

---------------------------------------------------------------------------
(* src/src/main.rs : run_docker_container, the classification of the        *)
(* trailing docker arguments                                                *)

\* str::starts_with(char) on an argument
starts_with(arg, c) == Len(arg) > 0 /\ arg[1] = c

\* str::contains(char) on an argument
contains(arg, c) == \E k \in 1..Len(arg) : arg[k] = c

\* lines 301-309: the docker run options that take a value
ValueFlags ==
    { <<"-", "p">>,
      <<"-", "-", "p", "u", "b", "l", "i", "s", "h">>,
      <<"-", "v">>,
      <<"-", "-", "v", "o", "l", "u", "m", "e">>,
      <<"-", "e">>,
      <<"-", "-", "e", "n", "v">>,
      <<"-", "-", "n", "a", "m", "e">>,
      <<"-", "-", "n", "e", "t", "w", "o", "r", "k">>,
      <<"-", "-", "u", "s", "e", "r">>,
      <<"-", "u">>,
      <<"-", "-", "w", "o", "r", "k", "d", "i", "r">>,
      <<"-", "w">>,
      <<"-", "-", "e", "n", "t", "r", "y", "p", "o", "i", "n", "t">>,
      <<"-", "-", "h", "o", "s", "t", "n", "a", "m", "e">>,
      <<"-", "-", "m", "e", "m", "o", "r", "y">>,
      <<"-", "m">>,
      <<"-", "-", "c", "p", "u", "s">>,
      <<"-", "-", "l", "a", "b", "e", "l">>,
      <<"-", "l">> }

\* (mutant) no option is taken to expect a value
takes_value_never(arg) == FALSE

\* lines 301-316: expecting_value after an argument that starts with '-'
takes_value(arg) ==
    IF arg \in ValueFlags THEN TRUE
    ELSE IF contains(arg, "=") THEN FALSE
    ELSE FALSE

\* (mutant) arguments that start with '-' stay docker options after the
\* container command has begun
classify_arg_options_late(st, arg) ==
    IF starts_with(arg, "-")
    THEN [ docker_options    |-> Append(st.docker_options, arg),
           container_command |-> st.container_command,
           expecting_value   |-> takes_value(arg) ]
    ELSE IF st.container_command = <<>> /\ st.expecting_value
    THEN [ docker_options    |-> Append(st.docker_options, arg),
           container_command |-> st.container_command,
           expecting_value   |-> FALSE ]
    ELSE [ docker_options    |-> st.docker_options,
           container_command |-> Append(st.container_command, arg),
           expecting_value   |-> st.expecting_value ]

\* (mutant) the value of a value-taking flag is consumed and not kept
classify_arg_value_dropped(st, arg) ==
    IF st.container_command = <<>>
    THEN IF starts_with(arg, "-")
         THEN [ docker_options    |-> Append(st.docker_options, arg),
                container_command |-> st.container_command,
                expecting_value   |-> takes_value(arg) ]
         ELSE IF st.expecting_value
         THEN [ docker_options    |-> st.docker_options,
                container_command |-> st.container_command,
                expecting_value   |-> FALSE ]
         ELSE [ docker_options    |-> st.docker_options,
                container_command |-> Append(st.container_command, arg),
                expecting_value   |-> st.expecting_value ]
    ELSE [ docker_options    |-> st.docker_options,
           container_command |-> Append(st.container_command, arg),
           expecting_value   |-> st.expecting_value ]

\* lines 292-328: the body of the while loop for one argument; st holds
\* docker_options, container_command and expecting_value
classify_arg(st, arg) ==
    IF st.container_command = <<>>
    THEN IF starts_with(arg, "-")
         THEN [ docker_options    |-> Append(st.docker_options, arg),
                container_command |-> st.container_command,
                expecting_value   |-> takes_value(arg) ]
         ELSE IF st.expecting_value
         THEN [ docker_options    |-> Append(st.docker_options, arg),
                container_command |-> st.container_command,
                expecting_value   |-> FALSE ]
         ELSE [ docker_options    |-> st.docker_options,
                container_command |-> Append(st.container_command, arg),
                expecting_value   |-> st.expecting_value ]
    ELSE [ docker_options    |-> st.docker_options,
           container_command |-> Append(st.container_command, arg),
           expecting_value   |-> st.expecting_value ]

\* An argument of the docker command line: a string the program formatted
\* (str) or one of the user's trailing arguments (chars).
StrArg(str) == [str |-> str, chars |-> <<>>]
TokArg(arg) == [str |-> "", chars |-> arg]
TokArgs(args) == [k \in 1..Len(args) |-> TokArg(args[k])]

\* (mutant) pixi.toml is read before the tag of the command line is looked at
run_image_tag_reads_metadata_first(cfg, env, tag) ==
    IF pixiFile.exists /\ ~from_file(pixiFile).ok THEN Err("pixi.toml")
    ELSE IF IsSome(tag) THEN Ok(Unwrap(tag))
    ELSE IF pixiFile.exists
    THEN LET pixi_toml == from_file(pixiFile)
         IN  LET name == UnwrapOr(OptOr(cfg.docker.image_name,
                                        get_name(pixi_toml.val)),
                                  "pixi-app")
                 version == UnwrapOr(OptOr(cfg.docker.image_tag,
                                           get_version(pixi_toml.val)),
                                     env)
             IN  Ok(name \o ":" \o version)
    ELSE LET name == UnwrapOr(cfg.docker.image_name, "pixi-app")
             version == UnwrapOr(cfg.docker.image_tag, env)
         IN  Ok(name \o ":" \o version)

\* (mutant) run falls back to the tag latest where build falls back to the
\* environment
run_image_tag_default_latest(cfg, env, tag) ==
    IF IsSome(tag) THEN Ok(Unwrap(tag))
    ELSE IF pixiFile.exists
    THEN LET pixi_toml == from_file(pixiFile)
         IN  IF ~pixi_toml.ok THEN Err("pixi.toml")
             ELSE LET name == UnwrapOr(OptOr(cfg.docker.image_name,
                                             get_name(pixi_toml.val)),
                                       "pixi-app")
                      version == UnwrapOr(OptOr(cfg.docker.image_tag,
                                                get_version(pixi_toml.val)),
                                          "latest")
                  IN  Ok(name \o ":" \o version)
    ELSE LET name == UnwrapOr(cfg.docker.image_name, "pixi-app")
             version == UnwrapOr(cfg.docker.image_tag, "latest")
         IN  Ok(name \o ":" \o version)

\* lines 248-277: the image to run
run_image_tag(cfg, env, tag) ==
    IF IsSome(tag) THEN Ok(Unwrap(tag))
    ELSE IF pixiFile.exists
    THEN LET pixi_toml == from_file(pixiFile)
         IN  IF ~pixi_toml.ok THEN Err("pixi.toml")
             ELSE LET name == UnwrapOr(OptOr(cfg.docker.image_name,
                                             get_name(pixi_toml.val)),
                                       "pixi-app")
                      version == UnwrapOr(OptOr(cfg.docker.image_tag,
                                                get_version(pixi_toml.val)),
                                          env)
                  IN  Ok(name \o ":" \o version)
    ELSE LET name == UnwrapOr(cfg.docker.image_name, "pixi-app")
             version == UnwrapOr(cfg.docker.image_tag, env)
         IN  Ok(name \o ":" \o version)

\* (mutant) run publishes the global ports whatever the overlay has
run_ports_global_only(cfg, env) == cfg.docker.ports

\* lines 336-345: the ports published when no trailing argument is given
run_ports(cfg, env) ==
    LET env_config == MapGet(cfg.environments, env)
    IN  IF IsSome(env_config)
        THEN IF Unwrap(env_config).ports # <<>>
             THEN Unwrap(env_config).ports
             ELSE cfg.docker.ports
        ELSE cfg.docker.ports

\* lines 348-350: -p <port>:<port> for every port
RECURSIVE port_mappings(_)
port_mappings(ports) ==
    IF ports = <<>> THEN <<>>
    ELSE <<StrArg("-p"),
           StrArg(ToString(Head(ports)) \o ":" \o ToString(Head(ports)))>>
         \o port_mappings(Tail(ports))

\* (mutant) the image is put right after `run`, before the options
run_docker_cmd_image_first(cfg, env, image, docker_args, options, command) ==
    <<StrArg("run"), StrArg(image)>>
    \o (IF docker_args = <<>>
        THEN port_mappings(run_ports(cfg, env)) \o <<StrArg("-it")>>
        ELSE TokArgs(options))
    \o TokArgs(command)

\* (mutant) the ports are published and -it is added whatever the arguments
run_docker_cmd_defaults_always(cfg, env, image, docker_args, options, command) ==
    <<StrArg("run")>>
    \o port_mappings(run_ports(cfg, env)) \o <<StrArg("-it")>>
    \o TokArgs(options)
    \o <<StrArg(image)>>
    \o TokArgs(command)

\* lines 280-367: the arguments of the docker command
run_docker_cmd(cfg, env, image, docker_args, options, command) ==
    <<StrArg("run")>>
    \o (IF docker_args = <<>>
        THEN port_mappings(run_ports(cfg, env)) \o <<StrArg("-it")>>
        ELSE TokArgs(options))
    \o <<StrArg(image)>>
    \o TokArgs(command)

\* lines 372-376 and 223-227: ExitStatus::success of the runtime's status;
\* the status is Err when docker cannot be spawned, else Ok(code), code None
\* when a signal ended it
status_success(status) == status.ok /\ status.val = Some(0)

\* main, lines 76-101: main returns the command's Result with `?`; the
\* process ends with status 0 when main returns Ok(()) and with status 1
\* when it returns an Err (the error is printed)
exit_status(res) == IF res = "ok" THEN 0 ELSE 1

\* The outcomes of running the container runtime.
DockerStatuses == {Err("spawn"), Ok(None), Ok(Some(0)), Ok(Some(1)), Ok(Some(125))}

\* The orders in which a HashMap with the key set S may be iterated: the
\* hasher of a std HashMap is seeded at random when the map is made.
Perms(S) ==
    {p \in [1..Cardinality(S) -> S] :
        \A i, j \in 1..Cardinality(S) : i # j => p[i] # p[j]}

\* lines 240-245 (and 150-155, 109-113): the configuration is loaded; build
\* and run also settle the environment
load_config ==
    /\ pc = "start"
    /\ IF ~configFile.exists
       THEN /\ result' = "err:config-not-found"
            /\ pc' = "done"
            /\ UNCHANGED <<config, environment, iterOrder>>
       ELSE IF ~from_file(configFile).ok
       THEN /\ result' = "err:config"
            /\ pc' = "done"
            /\ UNCHANGED <<config, environment, iterOrder>>
       ELSE /\ config' = Some(from_file(configFile).val)
            /\ iterOrder' \in Perms(DOMAIN from_file(configFile).val.environments)
            /\ environment' =
                  IF cli.command = "generate" THEN environment
                  ELSE UnwrapOr(cli.environment,
                                from_file(configFile).val.docker.environment)
            /\ pc' = "loaded"
            /\ UNCHANGED result
    /\ UNCHANGED <<configFile, pixiFile, templateFiles, badEnvs, cli,
                   template_content, effective, out, dockerfiles, cursor, files,
                   image_tag, docker_options, container_command, expecting_value,
                   docker_cmd, invocations, dockerStatus>>

\* lines 247-277: the image tag is determined
run_image ==
    /\ pc = "loaded"
    /\ cli.command = "run"
    /\ LET r == run_image_tag(Unwrap(config), environment, cli.tag)
       IN  IF r.ok
           THEN /\ image_tag' = Some(r.val)
                /\ pc' = "classify"
                /\ UNCHANGED result
           ELSE /\ result' = "err:" \o r.err
                /\ pc' = "done"
                /\ UNCHANGED image_tag
    /\ UNCHANGED <<configFile, pixiFile, templateFiles, iterOrder, badEnvs, cli,
                   config, environment, template_content, effective, out,
                   dockerfiles, cursor, files, docker_options, container_command,
                   expecting_value, docker_cmd, invocations, dockerStatus>>

\* lines 291-331: one iteration of the while loop
run_classify ==
    /\ pc = "classify"
    /\ cursor < Len(cli.docker_args)
    /\ LET st == classify_arg([ docker_options    |-> docker_options,
                                container_command |-> container_command,
                                expecting_value   |-> expecting_value ],
                              cli.docker_args[cursor + 1])
       IN  /\ docker_options' = st.docker_options
           /\ container_command' = st.container_command
           /\ expecting_value' = st.expecting_value
    /\ cursor' = cursor + 1
    /\ UNCHANGED <<configFile, pixiFile, templateFiles, iterOrder, badEnvs, cli,
                   pc, config, environment, template_content, effective, out,
                   dockerfiles, files, image_tag, docker_cmd, invocations,
                   dockerStatus, result>>

\* lines 333-367: the docker command line is put together
run_assemble ==
    /\ pc = "classify"
    /\ cursor >= Len(cli.docker_args)
    /\ docker_cmd' = run_docker_cmd(Unwrap(config), environment,
                                    Unwrap(image_tag), cli.docker_args,
                                    docker_options, container_command)
    /\ pc' = "invoke"
    /\ UNCHANGED <<configFile, pixiFile, templateFiles, iterOrder, badEnvs, cli,
                   config, environment, template_content, effective, out,
                   dockerfiles, cursor, files, image_tag, docker_options,
                   container_command, expecting_value, invocations, dockerStatus,
                   result>>

\* lines 372-378: docker runs and its status decides the outcome
run_status ==
    /\ pc = "invoke"
    /\ cli.command = "run"
    /\ invocations' = Append(invocations, docker_cmd)
    /\ \E status \in DockerStatuses :
         /\ dockerStatus' = Some(status)
         /\ result' = IF ~status.ok THEN "err:spawn"
                      ELSE IF ~status_success(status) THEN "err:docker-run"
                      ELSE "ok"
    /\ pc' = "done"
    /\ UNCHANGED <<configFile, pixiFile, templateFiles, iterOrder, badEnvs, cli,
                   config, environment, template_content, effective, out,
                   dockerfiles, cursor, files, image_tag, docker_options,
                   container_command, expecting_value, docker_cmd>>

---------------------------------------------------------------------------
(* src/src/main.rs : build_docker_image *)

\* lines 114-118, 158-162: the generator for the configured template
make_generator(cfg) == with_template_path(cfg.docker.template_path)

\* format!("Dockerfile.{}", environment)
dockerfile_name(env) == "Dockerfile." \o env

\* (mutant) the project metadata wins over the configured image name and tag
build_image_tag_metadata_first(cfg, env, tag) ==
    IF IsSome(tag) THEN Ok(Unwrap(tag))
    ELSE IF pixiFile.exists
    THEN LET pixi_toml == from_file(pixiFile)
         IN  IF ~pixi_toml.ok THEN Err("pixi.toml")
             ELSE LET name == UnwrapOr(OptOr(get_name(pixi_toml.val),
                                             cfg.docker.image_name),
                                       "pixi-app")
                      version == UnwrapOr(OptOr(get_version(pixi_toml.val),
                                                cfg.docker.image_tag),
                                          env)
                  IN  Ok(name \o ":" \o version)
    ELSE LET name == UnwrapOr(cfg.docker.image_name, "pixi-app")
             version == UnwrapOr(cfg.docker.image_tag, env)
         IN  Ok(name \o ":" \o version)

\* lines 169-198: the image tag of the build
build_image_tag(cfg, env, tag) ==
    IF IsSome(tag) THEN Ok(Unwrap(tag))
    ELSE IF pixiFile.exists
    THEN LET pixi_toml == from_file(pixiFile)
         IN  IF ~pixi_toml.ok THEN Err("pixi.toml")
             ELSE LET name == UnwrapOr(OptOr(cfg.docker.image_name,
                                             get_name(pixi_toml.val)),
                                       "pixi-app")
                      version == UnwrapOr(OptOr(cfg.docker.image_tag,
                                                get_version(pixi_toml.val)),
                                          env)
                  IN  Ok(name \o ":" \o version)
    ELSE LET name == UnwrapOr(cfg.docker.image_name, "pixi-app")
             version == UnwrapOr(cfg.docker.image_tag, env)
         IN  Ok(name \o ":" \o version)

\* (mutant) docker build is pointed at the file named Dockerfile
build_docker_cmd_plain_dockerfile(image, file, no_cache, platform, extra_args) ==
    <<StrArg("build"), StrArg("-t"), StrArg(image), StrArg("-f"),
      StrArg("Dockerfile")>>
    \o (IF no_cache THEN <<StrArg("--no-cache")>> ELSE <<>>)
    \o (IF IsSome(platform)
        THEN <<StrArg("--platform"), StrArg(Unwrap(platform))>> ELSE <<>>)
    \o TokArgs(extra_args)
    \o <<StrArg(".")>>

\* lines 201-218: the arguments of the docker command
build_docker_cmd(image, file, no_cache, platform, extra_args) ==
    <<StrArg("build"), StrArg("-t"), StrArg(image), StrArg("-f"), StrArg(file)>>
    \o (IF no_cache THEN <<StrArg("--no-cache")>> ELSE <<>>)
    \o (IF IsSome(platform)
        THEN <<StrArg("--platform"), StrArg(Unwrap(platform))>> ELSE <<>>)
    \o TokArgs(extra_args)
    \o <<StrArg(".")>>

\* lines 157-163: the Dockerfile of the environment is rendered
build_generate ==
    /\ pc = "loaded"
    /\ cli.command = "build"
    /\ template_content' = make_generator(Unwrap(config))
    /\ effective' = Some(generate_locals(Unwrap(config), Some(environment)))
    /\ LET r == generate(make_generator(Unwrap(config)), Unwrap(config),
                         Some(environment))
       IN  /\ out' = Some(r)
           /\ IF r.ok
              THEN pc' = "write" /\ UNCHANGED result
              ELSE pc' = "done" /\ result' = "err:render"
    /\ UNCHANGED <<configFile, pixiFile, templateFiles, iterOrder, badEnvs, cli,
                   config, environment, dockerfiles, cursor, files, image_tag,
                   docker_options, container_command, expecting_value,
                   docker_cmd, invocations, dockerStatus>>

\* lines 164-166: it is written to Dockerfile.<environment>; fs::write may fail
build_write ==
    /\ pc = "write"
    /\ cli.command = "build"
    /\ \E written \in BOOLEAN :
         IF written
         THEN /\ files' = Append(files, <<dockerfile_name(environment),
                                          Unwrap(out).val>>)
              /\ pc' = "image"
              /\ UNCHANGED result
         ELSE /\ result' = "err:write"
              /\ pc' = "done"
              /\ UNCHANGED files
    /\ UNCHANGED <<configFile, pixiFile, templateFiles, iterOrder, badEnvs, cli,
                   config, environment, template_content, effective, out,
                   dockerfiles, cursor, image_tag, docker_options,
                   container_command, expecting_value, docker_cmd, invocations,
                   dockerStatus>>

\* lines 168-198: the image tag is determined
build_image ==
    /\ pc = "image"
    /\ cli.command = "build"
    /\ LET r == build_image_tag(Unwrap(config), environment, cli.tag)
       IN  IF r.ok
           THEN /\ image_tag' = Some(r.val)
                /\ pc' = "assemble"
                /\ UNCHANGED result
           ELSE /\ result' = "err:" \o r.err
                /\ pc' = "done"
                /\ UNCHANGED image_tag
    /\ UNCHANGED <<configFile, pixiFile, templateFiles, iterOrder, badEnvs, cli,
                   config, environment, template_content, effective, out,
                   dockerfiles, cursor, files, docker_options, container_command,
                   expecting_value, docker_cmd, invocations, dockerStatus>>

\* lines 200-218: the docker command line is put together
build_assemble ==
    /\ pc = "assemble"
    /\ cli.command = "build"
    /\ docker_cmd' = build_docker_cmd(Unwrap(image_tag),
                                      dockerfile_name(environment),
                                      cli.no_cache, cli.platform, cli.extra_args)
    /\ pc' = "invoke"
    /\ UNCHANGED <<configFile, pixiFile, templateFiles, iterOrder, badEnvs, cli,
                   config, environment, template_content, effective, out,
                   dockerfiles, cursor, files, image_tag, docker_options,
                   container_command, expecting_value, invocations, dockerStatus,
                   result>>

\* lines 223-231: docker runs and its status decides the outcome
build_status ==
    /\ pc = "invoke"
    /\ cli.command = "build"
    /\ invocations' = Append(invocations, docker_cmd)
    /\ \E status \in DockerStatuses :
         /\ dockerStatus' = Some(status)
         /\ result' = IF ~status.ok THEN "err:spawn"
                      ELSE IF ~status_success(status) THEN "err:docker-build"
                      ELSE "ok"
    /\ pc' = "done"
    /\ UNCHANGED <<configFile, pixiFile, templateFiles, iterOrder, badEnvs, cli,
                   config, environment, template_content, effective, out,
                   dockerfiles, cursor, files, image_tag, docker_options,
                   container_command, expecting_value, docker_cmd>>

---------------------------------------------------------------------------
(* src/src/template.rs : generate_all, and src/src/main.rs :                *)
(* generate_dockerfiles                                                     *)

\* (mutant) an environment whose rendering fails is left out
generate_all_push_skip(acc, template, cfg, env, name) ==
    LET r == generate(template, cfg, env)
    IN  IF r.ok THEN Ok(Append(acc, <<dockerfile_name(name), r.val>>))
        ELSE Ok(acc)

\* template.rs lines 124-127, 131-134: dockerfiles.push((format!(..),
\* self.generate(..)?)), an error of generate being returned at once
generate_all_push(acc, template, cfg, env, name) ==
    LET r == generate(template, cfg, env)
    IN  IF r.ok THEN Ok(Append(acc, <<dockerfile_name(name), r.val>>))
        ELSE Err(r.err)

\* (mutant) the loop renders every overlay key
generate_all_visits_every_key(cfg, env_name) == TRUE

\* template.rs line 130: the overlay keys generate_all renders in its loop
generate_all_visits(cfg, env_name) == env_name # cfg.docker.environment

\* main.rs lines 114-124: the generator is made, the output directory is
\* there or is created (create_dir_all may fail), and the branch is taken
generate_setup ==
    /\ pc = "loaded"
    /\ cli.command = "generate"
    /\ template_content' = make_generator(Unwrap(config))
    /\ \E output_dir \in {"exists", "created", "failed"} :
         IF output_dir = "failed"
         THEN pc' = "done" /\ result' = "err:mkdir"
         ELSE /\ pc' = IF cli.all \/ ~IsSome(cli.environment)
                       THEN "generate_all" ELSE "generate_one"
              /\ UNCHANGED result
    /\ UNCHANGED <<configFile, pixiFile, templateFiles, iterOrder, badEnvs, cli,
                   config, environment, effective, out, dockerfiles, cursor,
                   files, image_tag, docker_options, container_command,
                   expecting_value, docker_cmd, invocations, dockerStatus>>

\* template.rs lines 122-127: generate_all renders the default environment
generate_all_default ==
    /\ pc = "generate_all"
    /\ LET cfg == Unwrap(config)
           r == generate_all_push(<<>>, template_content, cfg, None,
                                  cfg.docker.environment)
       IN  /\ effective' = Some(generate_locals(cfg, None))
           /\ out' = Some(generate(template_content, cfg, None))
           /\ IF r.ok
              THEN /\ dockerfiles' = r.val
                   /\ pc' = "generate_all_loop"
                   /\ UNCHANGED result
              ELSE /\ pc' = "done"
                   /\ result' = "err:" \o r.err
                   /\ UNCHANGED dockerfiles
    /\ cursor' = 0
    /\ UNCHANGED <<configFile, pixiFile, templateFiles, iterOrder, badEnvs, cli,
                   config, environment, template_content, files, image_tag,
                   docker_options, container_command, expecting_value,
                   docker_cmd, invocations, dockerStatus>>

\* template.rs lines 129-136: one iteration over config.environments
generate_all_next ==
    /\ pc = "generate_all_loop"
    /\ cursor < Len(iterOrder)
    /\ LET cfg == Unwrap(config)
           env_name == iterOrder[cursor + 1]
           r == generate_all_push(dockerfiles, template_content, cfg,
                                  Some(env_name), env_name)
       IN  IF generate_all_visits(cfg, env_name)
           THEN /\ effective' = Some(generate_locals(cfg, Some(env_name)))
                /\ out' = Some(generate(template_content, cfg, Some(env_name)))
                /\ IF r.ok
                   THEN /\ dockerfiles' = r.val
                        /\ UNCHANGED <<pc, result>>
                   ELSE /\ pc' = "done"
                        /\ result' = "err:" \o r.err
                        /\ UNCHANGED dockerfiles
           ELSE UNCHANGED <<effective, out, dockerfiles, pc, result>>
    /\ cursor' = cursor + 1
    /\ UNCHANGED <<configFile, pixiFile, templateFiles, iterOrder, badEnvs, cli,
                   config, environment, template_content, files, image_tag,
                   docker_options, container_command, expecting_value,
                   docker_cmd, invocations, dockerStatus>>

\* template.rs line 138, main.rs line 125: generate_all returns its vector
generate_all_return ==
    /\ pc = "generate_all_loop"
    /\ cursor >= Len(iterOrder)
    /\ pc' = "write_all"
    /\ cursor' = 0
    /\ UNCHANGED <<configFile, pixiFile, templateFiles, iterOrder, badEnvs, cli,
                   config, environment, template_content, effective, out,
                   dockerfiles, files, image_tag, docker_options,
                   container_command, expecting_value, docker_cmd, invocations,
                   dockerStatus, result>>

\* main.rs lines 126-130: the next Dockerfile is written; fs::write may fail
generate_write_next ==
    /\ pc = "write_all"
    /\ cursor < Len(dockerfiles)
    /\ \E written \in BOOLEAN :
         IF written
         THEN /\ files' = Append(files, dockerfiles[cursor + 1])
              /\ cursor' = cursor + 1
              /\ UNCHANGED <<pc, result>>
         ELSE /\ result' = "err:write"
              /\ pc' = "done"
              /\ UNCHANGED <<files, cursor>>
    /\ UNCHANGED <<configFile, pixiFile, templateFiles, iterOrder, badEnvs, cli,
                   config, environment, template_content, effective, out,
                   dockerfiles, image_tag, docker_options, container_command,
                   expecting_value, docker_cmd, invocations, dockerStatus>>

\* main.rs lines 130, 139: every Dockerfile is written
generate_write_done ==
    /\ pc = "write_all"
    /\ cursor >= Len(dockerfiles)
    /\ pc' = "done"
    /\ result' = "ok"
    /\ UNCHANGED <<configFile, pixiFile, templateFiles, iterOrder, badEnvs, cli,
                   config, environment, template_content, effective, out,
                   dockerfiles, cursor, files, image_tag, docker_options,
                   container_command, expecting_value, docker_cmd, invocations,
                   dockerStatus>>

\* main.rs lines 131-139: the Dockerfile of the one environment asked for
generate_one ==
    /\ pc = "generate_one"
    /\ LET cfg == Unwrap(config)
           env == Unwrap(cli.environment)
           r == generate(template_content, cfg, Some(env))
       IN  /\ effective' = Some(generate_locals(cfg, Some(env)))
           /\ out' = Some(r)
           /\ IF ~r.ok
              THEN result' = "err:" \o r.err /\ UNCHANGED files
              ELSE \E written \in BOOLEAN :
                     IF written
                     THEN /\ files' = Append(files, <<dockerfile_name(env), r.val>>)
                          /\ result' = "ok"
                     ELSE /\ result' = "err:write"
                          /\ UNCHANGED files
    /\ pc' = "done"
    /\ UNCHANGED <<configFile, pixiFile, templateFiles, iterOrder, badEnvs, cli,
                   config, environment, template_content, dockerfiles, cursor,
                   image_tag, docker_options, container_command,
                   expecting_value, docker_cmd, invocations, dockerStatus>>

---------------------------------------------------------------------------
(* SpecClassify: pixi-docker run over lists of trailing arguments *)

\* The arguments the lists are made of: two value-taking flags, a flag with
\* no value, a flag with '=', and three arguments that start with no '-'.
TokenPool ==
    { <<"-", "p">>,
      <<"-", "-", "n", "a", "m", "e">>,
      <<"-", "i", "t">>,
      <<"-", "-", "e", "n", "v", "=", "A", "=", "1">>,
      <<"p", "y", "t", "h", "o", "n">>,
      <<"8", "0", "8", "0", ":", "8", "0", "8", "0">>,
      <<"m", "y", "a", "p", "p">> }

\* The argument list of test_run_with_complex_docker_args.
ComplexArgs ==
    << <<"-", "p">>,
       <<"8", "0", "8", "0", ":", "8", "0", "8", "0">>,
       <<"-", "-", "n", "a", "m", "e">>,
       <<"m", "y", "a", "p", "p">>,
       <<"-", "v">>,
       <<"/", "t", "m", "p", ":", "/", "t", "m", "p">>,
       <<"p", "y", "t", "h", "o", "n">>,
       <<"-", "c">>,
       <<"p", "r", "i", "n", "t", "(", "'", "t", "e", "s", "t", "'", ")">> >>

\* Lists of at most MaxTokens arguments, and the list of the test.
ArgLists ==
    UNION {[1..n -> TokenPool] : n \in 0..MaxTokens} \cup {ComplexArgs}

\* A configuration with one overlay, as in create_test_config.
TestConfig ==
    [docker |-> TestDocker, environments |-> [e \in {"dev"} |-> TestOverlay]]

InitClassify ==
    /\ \E args \in ArgLists :
         cli = [NoCli EXCEPT !.command = "run", !.tag = Some("test-image:v1.0"),
                             !.docker_args = args]
    /\ configFile = GoodFile(TestConfig)
    /\ pixiFile = NoFile
    /\ templateFiles = NoTemplates
    /\ template_content = ""
    /\ iterOrder = <<>>
    /\ badEnvs = {}
    /\ dockerStatus = None
    /\ config = None
    /\ Started

NextClassify ==
    \/ load_config
    \/ run_image
    \/ run_classify
    \/ run_assemble
    \/ run_status

SpecClassify == InitClassify /\ [][NextClassify]_vars

---------------------------------------------------------------------------
(* Claims about the classification (checked under SpecClassify) *)

Min(a, b) == IF a <= b THEN a ELSE b

\* Where the container command begins when the argument after a value-taking
\* flag is its value whatever it looks like: the index of the first argument
\* from i on that is neither a flag nor the value of a value-taking flag.
RECURSIVE StartSkippingValues(_, _)
StartSkippingValues(args, i) ==
    IF i > Len(args) THEN Len(args) + 1
    ELSE IF args[i] \in ValueFlags THEN StartSkippingValues(args, i + 2)
    ELSE IF starts_with(args[i], "-") THEN StartSkippingValues(args, i + 1)
    ELSE i

\* C3: while no command token has been seen, the argument after a
\* value-taking flag is consumed as that flag's value and appended to the
\* options even if it looks like a flag, and is not itself taken for a flag
\* that takes a further value: when the scan is over, the options are the
\* arguments before the first one that is neither a flag nor such a value,
\* and the command is the rest (for -p --name foo bar it starts at foo).
C3_NextTokenIsTheValue ==
    pc = "invoke" =>
        LET args == cli.docker_args
            start == StartSkippingValues(args, 1)
        IN  /\ docker_options = SubSeq(args, 1, start - 1)
            /\ container_command = SubSeq(args, start, Len(args))

\* The index of the first argument that starts with no '-' and does not
\* follow one of the value-taking flags; Len(args) + 1 when there is none.
CommandStart(args) ==
    IF \E i \in 1..Len(args) :
          ~starts_with(args[i], "-") /\ (i = 1 \/ args[i - 1] \notin ValueFlags)
    THEN CHOOSE i \in 1..Len(args) :
          /\ ~starts_with(args[i], "-") /\ (i = 1 \/ args[i - 1] \notin ValueFlags)
          /\ \A j \in 1..(i - 1) :
                starts_with(args[j], "-")
                   \/ (j > 1 /\ args[j - 1] \in ValueFlags)
    ELSE Len(args) + 1

\* C4: the first argument that starts with no '-' and is not the value of the
\* value-taking flag before it begins the command; at every point of the
\* scan the options are the scanned arguments before it and the command is
\* the scanned arguments from it on, so that from there every argument, with
\* or without '-', goes to the command and the options grow no more.
C4_CommandBeginsAtFirstPlainToken ==
    pc \in {"classify", "invoke"} =>
        LET args == cli.docker_args
            start == CommandStart(args)
        IN  /\ docker_options = SubSeq(args, 1, Min(cursor, start - 1))
            /\ container_command = SubSeq(args, start, cursor)

\* The arguments of test_run_with_complex_docker_args are scanned: six
\* options, and a command of three arguments that holds the flag -c.
C4_Witness ==
    /\ pc = "invoke"
    /\ cli.docker_args = ComplexArgs
    /\ docker_options = SubSeq(ComplexArgs, 1, 6)
    /\ container_command = <<ComplexArgs[7], ComplexArgs[8], ComplexArgs[9]>>
    /\ starts_with(container_command[2], "-")
    /\ ~starts_with(container_command[1], "-")

\* The number of arguments between `run` and the image on the command line.
RunOptionCount == Len(docker_cmd) - Len(container_command) - 2

\* C11: the assembled docker run command line is `run`, then the runtime
\* options (the classified options, in their order, when trailing arguments
\* were given), then the image reference, at that one position, then the
\* container command in its order: no argument classified as command stands
\* before the image, no argument classified as option after it, and this
\* command line is the one docker is run with.
C11_RunCommandShape ==
    (cli.command = "run" /\ pc \in {"invoke", "done"} /\ docker_cmd # <<>>) =>
        LET n == Len(docker_cmd)
            at == n - Len(container_command)
            image == StrArg(Unwrap(image_tag))
        IN  /\ RunOptionCount >= 0
            /\ docker_cmd[1] = StrArg("run")
            /\ docker_cmd[at] = image
            /\ {k \in 1..n : docker_cmd[k] = image} = {at}
            /\ SubSeq(docker_cmd, at + 1, n) = TokArgs(container_command)
            /\ cli.docker_args # <<>> =>
                  SubSeq(docker_cmd, 2, at - 1) = TokArgs(docker_options)
            /\ pc = "done" => invocations = <<docker_cmd>>

\* docker was run for the arguments of test_run_with_complex_docker_args:
\* run, the six options, the image, the three command arguments.
C11_Witness ==
    /\ pc = "done"
    /\ cli.command = "run"
    /\ cli.docker_args = ComplexArgs
    /\ Len(invocations) = 1
    /\ Len(invocations[1]) = 11
    /\ invocations[1][1] = StrArg("run")
    /\ invocations[1][7] = TokArg(ComplexArgs[6])
    /\ invocations[1][8] = StrArg("test-image:v1.0")
    /\ invocations[1][9] = TokArg(ComplexArgs[7])

\* The last trailing argument is one of the value-taking flags and was
\* scanned while no command had begun.
TrailingValueFlag ==
    /\ cli.docker_args # <<>>
    /\ cli.docker_args[Len(cli.docker_args)] \in ValueFlags
    /\ container_command = <<>>

\* C13: a value-taking flag that is the last argument, scanned as an option,
\* is pushed onto the options with no value after it: it is the last option,
\* its value is still expected when the scan ends, and the scan ends with no
\* error, the command line being assembled with the flag right before the
\* image and docker being run with it.
C13_TrailingValueFlagAccepted ==
    (cli.command = "run" /\ pc \in {"invoke", "done"} /\ TrailingValueFlag) =>
        LET args == cli.docker_args
        IN  /\ docker_options = args
            /\ docker_options[Len(docker_options)] = args[Len(args)]
            /\ expecting_value
            /\ docker_cmd = <<StrArg("run")>> \o TokArgs(args)
                               \o <<StrArg(Unwrap(image_tag))>>
            /\ pc = "invoke" => result = "running"
            /\ pc = "done" =>
                  /\ invocations = <<docker_cmd>>
                  /\ result \in {"ok", "err:spawn", "err:docker-run"}

\* docker was run for -p 8080:8080 --name: the flag --name is the last
\* option, with nothing paired to it.
C13_Witness ==
    /\ pc = "done"
    /\ cli.docker_args = <<ComplexArgs[1], ComplexArgs[2], ComplexArgs[3]>>
    /\ docker_options = cli.docker_args
    /\ expecting_value
    /\ Len(invocations) = 1
    /\ invocations[1][4] = TokArg(ComplexArgs[3])
    /\ invocations[1][5] = StrArg("test-image:v1.0")
    /\ Len(invocations[1]) = 5

\* C19: at every step of the scan and at its end, the options followed by
\* the command are the arguments scanned so far, in their order; so at the
\* end they are the whole argument list, nothing dropped, doubled or moved;
\* and a command that is not empty begins with an argument that starts with
\* no '-'.
C19_OptionsThenCommandIsThePrefix ==
    (cli.command = "run" /\ pc \in {"classify", "invoke", "done"}) =>
        /\ cursor \in 0..Len(cli.docker_args)
        /\ docker_options \o container_command
              = SubSeq(cli.docker_args, 1, cursor)
        /\ (pc = "invoke" \/ invocations # <<>>) =>
              docker_options \o container_command = cli.docker_args
        /\ container_command # <<>> =>
              ~starts_with(container_command[1], "-")

\* The scan of -p 8080:8080 python -it is over: two options, and a command
\* of two arguments whose second starts with '-'.
C19_Witness ==
    /\ pc = "done"
    /\ cli.docker_args = <<ComplexArgs[1], ComplexArgs[2], ComplexArgs[7],
                            <<"-", "i", "t">> >>
    /\ cursor = 4
    /\ docker_options = <<ComplexArgs[1], ComplexArgs[2]>>
    /\ container_command = <<ComplexArgs[7], <<"-", "i", "t">> >>

---------------------------------------------------------------------------
(* SpecRun: pixi-docker run over the ports of the configuration and of the  *)
(* selected environment's overlay                                           *)

\* Configurations that differ in the global ports and in the overlay "dev":
\* none, or one with any of the overlay port lists (the empty one included).
RunConfigs ==
    { [docker |-> [TestDocker EXCEPT !.ports = g], environments |-> <<>>] :
         g \in GlobalPorts }
    \cup
    { [docker |-> [TestDocker EXCEPT !.ports = g],
       environments |-> [e \in {"dev"} |-> [TestOverlay EXCEPT !.ports = o]]] :
         g \in GlobalPorts, o \in OverlayPorts }

\* No trailing argument, one argument, or `-p 8080:8080 python`.
RunArgLists ==
    {<<>>, <<ComplexArgs[1], ComplexArgs[2], ComplexArgs[7]>>}
    \cup {<<a>> : a \in TokenPool}

InitRun ==
    /\ \E e \in {None, Some("dev"), Some("ghost")},
          t \in {None, Some("test-image:v1.0")},
          a \in RunArgLists :
         cli = [NoCli EXCEPT !.command = "run", !.environment = e, !.tag = t,
                             !.docker_args = a]
    /\ configFile \in {GoodFile(c) : c \in RunConfigs}
    /\ pixiFile = NoFile
    /\ templateFiles = NoTemplates
    /\ template_content = ""
    /\ iterOrder = <<>>
    /\ badEnvs = {}
    /\ dockerStatus = None
    /\ config = None
    /\ Started

NextRun ==
    \/ load_config
    \/ run_image
    \/ run_classify
    \/ run_assemble
    \/ run_status

SpecRun == InitRun /\ [][NextRun]_vars

---------------------------------------------------------------------------
(* Claims about the default options of run (checked under SpecRun) *)

\* The effective ports of the selected environment: the ports of its overlay
\* when it has one with a non-empty list, else the global ports.
SelectedPorts ==
    LET o == MapGet(Cfg.environments, environment)
    IN  IF IsSome(o) /\ Len(Unwrap(o).ports) >= 1 THEN Unwrap(o).ports
        ELSE Cfg.docker.ports

\* C12: with no trailing argument, the docker run command line is run, then
\* -p <port>:<port> for every effective port of the selected environment in
\* the order of the list, then -it, then the image and nothing after it;
\* with trailing arguments it is run, the classified options, the image and
\* the command, with no published port and no -it added.
C12_DefaultOptionsOnlyWithoutArguments ==
    (cli.command = "run" /\ pc \in {"invoke", "done"}) =>
        LET n == Len(SelectedPorts)
            image == StrArg(Unwrap(image_tag))
        IN  IF cli.docker_args = <<>>
            THEN /\ Len(docker_cmd) = 2 * n + 3
                 /\ docker_cmd[1] = StrArg("run")
                 /\ \A k \in 1..n :
                       /\ docker_cmd[2 * k] = StrArg("-p")
                       /\ docker_cmd[2 * k + 1] =
                             StrArg(ToString(SelectedPorts[k]) \o ":"
                                    \o ToString(SelectedPorts[k]))
                 /\ docker_cmd[2 * n + 2] = StrArg("-it")
                 /\ docker_cmd[2 * n + 3] = image
                 /\ container_command = <<>>
            ELSE docker_cmd = <<StrArg("run")>> \o TokArgs(docker_options)
                                 \o <<image>> \o TokArgs(container_command)

\* docker was run with no trailing argument for the environment dev, whose
\* overlay has two ports, the global list having other ports.
C12_Witness ==
    /\ pc = "done"
    /\ cli.docker_args = <<>>
    /\ environment = "dev"
    /\ Cfg.docker.ports = <<8080>>
    /\ invocations = << <<StrArg("run"), StrArg("-p"), StrArg("3000:3000"),
                          StrArg("-p"), StrArg("3001:3001"), StrArg("-it"),
                          StrArg(Unwrap(image_tag))>> >>

\* The ports the generator hands to the template for an environment.
TemplatePorts(env) == generate_context(Cfg, Some(env)).ports

\* C22: for every configuration and every environment name, with an overlay
\* or without, the ports run publishes when it is given no trailing argument
\* are the ports the generator hands to the template for that environment:
\* the two computations agree on every name, and the -p arguments of the
\* docker command line are those ports, each once, in the same order.
C22_PublishedPortsAreTemplatePorts ==
    IsSome(config) =>
        /\ \A e \in {"prod", "dev", "ghost"} :
              run_ports(Cfg, e) = TemplatePorts(e)
        /\ (cli.docker_args = <<>> /\ docker_cmd # <<>>) =>
              LET ports == TemplatePorts(environment)
              IN  /\ Len(docker_cmd) = 2 * Len(ports) + 3
                  /\ \A k \in 1..Len(ports) :
                        /\ docker_cmd[2 * k] = StrArg("-p")
                        /\ docker_cmd[2 * k + 1] =
                              StrArg(ToString(ports[k]) \o ":"
                                     \o ToString(ports[k]))

\* docker was run with no trailing argument for the environment dev, whose
\* overlay has no port: the two global ports are published, the ones the
\* template gets for dev.
C22_Witness ==
    /\ pc = "done"
    /\ cli.docker_args = <<>>
    /\ environment = "dev"
    /\ "dev" \in DOMAIN Cfg.environments
    /\ Cfg.environments["dev"].ports = <<>>
    /\ TemplatePorts("dev") = <<8080, 8081>>
    /\ Len(invocations) = 1
    /\ SubSeq(invocations[1], 2, 5) =
          <<StrArg("-p"), StrArg("8080:8080"), StrArg("-p"), StrArg("8081:8081")>>

---------------------------------------------------------------------------
(* SpecTemplate: pixi-docker generate and build over the template files     *)

\* The file at the configured template_path and the file
\* templates/Dockerfile.j2: each missing, there but unreadable, or readable.
TemplateFiles ==
    { [explicit |-> x, conventional_exists |-> ce, conventional |-> c] :
         x \in {None, Some("custom.j2 text")},
         ce \in BOOLEAN,
         c \in {None, Some("templates/Dockerfile.j2 text")} }
    \ { [explicit |-> x, conventional_exists |-> FALSE,
         conventional |-> Some("templates/Dockerfile.j2 text")] :
           x \in {None, Some("custom.j2 text")} }

\* The test configuration with and without template_path.
TemplateConfigs ==
    { [TestConfig EXCEPT !.docker.template_path = t] :
         t \in {None, Some("custom.j2")} }

InitTemplate ==
    /\ \/ \E a \in BOOLEAN, e \in {None, Some("dev")} :
            cli = [NoCli EXCEPT !.command = "generate", !.all = a,
                                !.environment = e]
       \/ \E e \in {None, Some("dev")} :
            cli = [NoCli EXCEPT !.command = "build", !.environment = e,
                                !.tag = Some("test-image:v1.0")]
    /\ configFile \in {GoodFile(c) : c \in TemplateConfigs}
    /\ pixiFile = NoFile
    /\ templateFiles \in TemplateFiles
    /\ template_content = ""
    /\ iterOrder = <<>>
    /\ badEnvs \in {{}, {"dev"}}
    /\ dockerStatus = None
    /\ config = None
    /\ Started

NextTemplate ==
    \/ load_config
    \/ generate_setup
    \/ generate_all_default
    \/ generate_all_next
    \/ generate_all_return
    \/ generate_write_next
    \/ generate_write_done
    \/ generate_one
    \/ build_generate
    \/ build_write
    \/ build_image
    \/ build_assemble
    \/ build_status

SpecTemplate == InitTemplate /\ [][NextTemplate]_vars

---------------------------------------------------------------------------
(* Claims about the template source (checked under SpecTemplate) *)

\* The generator was constructed: generate and build are past the step that
\* makes it.
GeneratorMade ==
    /\ IsSome(config)
    /\ pc \notin {"start", "loaded"}

\* C17: the construction of the generator never fails, and its template is
\* the text of the configured template_path when one is configured and can
\* be read, the compiled-in template when one is configured and cannot be
\* read (even with templates/Dockerfile.j2 there), and with none configured
\* the text of templates/Dockerfile.j2 when that file exists and can be
\* read, else the compiled-in template; every rendering is made from it.
C17_TemplateSourceSelection ==
    /\ GeneratorMade =>
          /\ template_content =
                IF IsSome(Cfg.docker.template_path)
                THEN IF IsSome(templateFiles.explicit)
                     THEN Unwrap(templateFiles.explicit)
                     ELSE default_template
                ELSE IF templateFiles.conventional_exists
                          /\ IsSome(templateFiles.conventional)
                     THEN Unwrap(templateFiles.conventional)
                     ELSE default_template
          /\ (IsSome(out) /\ Unwrap(out).ok) =>
                Unwrap(out).val.template = template_content
          /\ \A k \in 1..Len(files) : files[k][2].template = template_content
    /\ (pc = "done" /\ IsSome(config)) =>
          \/ GeneratorMade
          \/ result = "err:mkdir"
    /\ result \in {"running", "ok", "err:mkdir", "err:render", "err:write",
                    "err:spawn", "err:docker-build"}

\* A template_path is configured, its file cannot be read, and
\* templates/Dockerfile.j2 is there and readable: the Dockerfile written was
\* rendered from the compiled-in template.
C17_Witness ==
    /\ pc = "done"
    /\ result = "ok"
    /\ Cfg.docker.template_path = Some("custom.j2")
    /\ templateFiles.explicit = None
    /\ templateFiles.conventional = Some("templates/Dockerfile.j2 text")
    /\ files # <<>>
    /\ files[1][2].template = default_template

---------------------------------------------------------------------------
(* SpecImage: pixi-docker build and pixi-docker run over the sources of the *)
(* image reference                                                          *)

\* image_name and image_tag of the configuration
ImageConfigs ==
    { [docker |-> [TestDocker EXCEPT !.image_name = n, !.image_tag = t],
       environments |-> [e \in {"dev"} |-> TestOverlay]] :
         n \in {None, Some("cfg-name")}, t \in {None, Some("cfg-tag")} }

InitImage ==
    /\ \E c \in {"build", "run"},
          e \in {None, Some("staging"), Some("dev")},
          t \in {None, Some("test-image:v1.0")},
          a \in {<<>>, <<ComplexArgs[1], ComplexArgs[2], ComplexArgs[7]>>} :
         cli = [NoCli EXCEPT !.command = c, !.environment = e, !.tag = t,
                             !.docker_args = a]
    /\ configFile \in {NoFile, BadFile} \cup {GoodFile(c) : c \in ImageConfigs}
    /\ pixiFile \in MetadataFiles
    /\ templateFiles = NoTemplates
    /\ template_content = ""
    /\ iterOrder = <<>>
    /\ badEnvs \in {{}, {"staging"}}
    /\ dockerStatus = None
    /\ config = None
    /\ Started

NextImage ==
    \/ load_config
    \/ build_generate
    \/ build_write
    \/ build_image
    \/ build_assemble
    \/ build_status
    \/ run_image
    \/ run_classify
    \/ run_assemble
    \/ run_status

SpecImage == InitImage /\ [][NextImage]_vars

---------------------------------------------------------------------------
(* Claims about the image reference (checked under SpecImage) *)

\* The [workspace] value of a field of a parsed pixi.toml if there is one,
\* else the [project] value, else None.
MetadataField(content, field) ==
    IF IsSome(content.workspace) /\ IsSome(Unwrap(content.workspace)[field])
    THEN Unwrap(content.workspace)[field]
    ELSE IF IsSome(content.project) /\ IsSome(Unwrap(content.project)[field])
    THEN Unwrap(content.project)[field]
    ELSE None

\* The name and the version pixi.toml gives; None without a parsed file.
MetadataName ==
    IF pixiFile.exists /\ IsSome(pixiFile.parsed)
    THEN MetadataField(Unwrap(pixiFile.parsed), "name") ELSE None
MetadataVersion ==
    IF pixiFile.exists /\ IsSome(pixiFile.parsed)
    THEN MetadataField(Unwrap(pixiFile.parsed), "version") ELSE None

\* name: image_name, else the metadata name, else "pixi-app";
\* tag: image_tag, else the metadata version, else the environment.
ChainName ==
    IF IsSome(Cfg.docker.image_name) THEN Unwrap(Cfg.docker.image_name)
    ELSE IF IsSome(MetadataName) THEN Unwrap(MetadataName)
    ELSE "pixi-app"
ChainTag ==
    IF IsSome(Cfg.docker.image_tag) THEN Unwrap(Cfg.docker.image_tag)
    ELSE IF IsSome(MetadataVersion) THEN Unwrap(MetadataVersion)
    ELSE environment

\* The image reference on the docker command line: the argument after -t of
\* docker build, the argument after the options of docker run.
ImageArgument ==
    IF cli.command = "build" THEN docker_cmd[3]
    ELSE docker_cmd[Len(docker_cmd) - Len(container_command)]

\* C1: with no CLI tag, the image reference build and run use is name:tag,
\* name the first present of image_name, the metadata name and "pixi-app",
\* tag the first present of image_tag, the metadata version and the selected
\* environment's name.
C1_ImageReferenceChain ==
    /\ (cli.tag = None /\ IsSome(image_tag)) =>
          Unwrap(image_tag) = ChainName \o ":" \o ChainTag
    /\ (cli.tag = None /\ docker_cmd # <<>>) =>
          ImageArgument = StrArg(ChainName \o ":" \o ChainTag)
    /\ (cli.tag = None /\ invocations # <<>>) =>
          invocations = <<docker_cmd>>

\* docker build is run for my-awesome-app:2.1.0, the name and version of the
\* [workspace] table, the configuration having neither image_name nor image_tag.
C1_Witness ==
    /\ pc = "done"
    /\ invocations # <<>>
    /\ cli.command = "build"
    /\ cli.tag = None
    /\ Cfg.docker.image_name = None
    /\ Cfg.docker.image_tag = None
    /\ pixiFile.exists
    /\ image_tag = Some("my-awesome-app:2.1.0")
    /\ invocations[1][3] = StrArg("my-awesome-app:2.1.0")

\* C14: for every pixi.toml that parses, get_name and get_version give, each
\* for its own field, the [workspace] table's value when that table is there
\* and has the field, else the [project] table's value when that table is
\* there and has it, else nothing: with both tables, with one of them, and
\* with a [workspace] table that lacks what the [project] table has.
C14_WorkspaceThenProject ==
    (pixiFile.exists /\ IsSome(pixiFile.parsed)) =>
        LET content == Unwrap(pixiFile.parsed)
            w == content.workspace
            p == content.project
            Expected(field) ==
                IF IsSome(w) /\ Unwrap(w)[field] # None THEN Unwrap(w)[field]
                ELSE IF IsSome(p) /\ Unwrap(p)[field] # None THEN Unwrap(p)[field]
                ELSE None
        IN  /\ get_name(content) = Expected("name")
            /\ get_version(content) = Expected("version")
            /\ (IsSome(image_tag) /\ cli.tag = None
                   /\ Cfg.docker.image_name = None
                   /\ Cfg.docker.image_tag = None) =>
                  Unwrap(image_tag) =
                     UnwrapOr(Expected("name"), "pixi-app") \o ":"
                        \o UnwrapOr(Expected("version"), environment)

\* The image was resolved from a pixi.toml whose [workspace] table has a
\* version and no name and whose [project] table has both: the name is the
\* project's, the version the workspace's.
C14_Witness ==
    /\ pc = "done"
    /\ invocations # <<>>
    /\ cli.tag = None
    /\ Cfg.docker.image_name = None
    /\ Cfg.docker.image_tag = None
    /\ pixiFile = GoodFile([workspace |-> Some([name |-> None,
                                                version |-> Some("2.1.0")]),
                            project |-> Some([name |-> Some("my-project"),
                                              version |-> Some("1.0.0")]),
                            tasks |-> <<>>])
    /\ image_tag = Some("my-project:2.1.0")

\* C16: with a tag on the command line, build and run never fail on
\* pixi.toml, and the image reference they resolve, put on the docker command
\* line and run docker with is that tag, whatever image_name and image_tag
\* of the configuration, the environment, and pixi.toml (absent, malformed or
\* with a name and a version) are.
C16_CliTagWins ==
    IsSome(cli.tag) =>
        /\ result # "err:pixi.toml"
        /\ IsSome(image_tag) => image_tag = cli.tag
        /\ pc \in {"invoke", "done"} /\ docker_cmd # <<>> =>
              /\ ImageArgument = StrArg(Unwrap(cli.tag))
              /\ pc = "done" => invocations = <<docker_cmd>>
        /\ (pc = "done" /\ IsSome(config)
               /\ result \notin {"err:render", "err:write"}) =>
              invocations # <<>>

\* docker run was given the tag of the command line although the
\* configuration has an image name and a tag and pixi.toml does not parse.
C16_Witness ==
    /\ pc = "done"
    /\ invocations # <<>>
    /\ cli.command = "run"
    /\ cli.tag = Some("test-image:v1.0")
    /\ cli.environment = Some("staging")
    /\ pixiFile = BadFile
    /\ Cfg.docker.image_name = Some("cfg-name")
    /\ Cfg.docker.image_tag = Some("cfg-tag")
    /\ invocations[1][Len(invocations[1]) - Len(container_command)]
          = StrArg("test-image:v1.0")

\* C18: build and run hand the exit status of docker on unchanged: when
\* docker ends with status 0 the command succeeds, when it ends with another
\* status the command fails, and the status the caller of pixi-docker sees
\* is the status docker ended with.
C18_ExitStatusPropagated ==
    (pc = "done" /\ IsSome(dockerStatus) /\ Unwrap(dockerStatus).ok
        /\ IsSome(Unwrap(dockerStatus).val)) =>
        LET code == Unwrap(Unwrap(dockerStatus).val)
        IN  /\ code = 0 => result = "ok"
            /\ code # 0 => result # "ok"
            /\ exit_status(result) = code

\* C20: in build, docker is run at most once, and each step has the ones
\* before it done: a rendering is made only with the configuration loaded,
\* the one file written is Dockerfile.<environment> with that rendering, the
\* image reference is resolved only after the file is written, the command
\* line is put together only with the reference, and docker is run with that
\* command line, whose -t is the reference and whose -f is the file written
\* in this run; when loading, rendering, writing or resolving fails, docker
\* is not run.
C20_BuildStepsInOrder ==
    cli.command = "build" =>
        /\ Len(invocations) <= 1
        /\ IsSome(out) => IsSome(config)
        /\ files # <<>> =>
              /\ IsSome(out) /\ Unwrap(out).ok
              /\ files = << <<"Dockerfile." \o environment, Unwrap(out).val>> >>
        /\ IsSome(image_tag) => files # <<>>
        /\ docker_cmd # <<>> => IsSome(image_tag)
        /\ invocations # <<>> =>
              /\ invocations = <<docker_cmd>>
              /\ SubSeq(docker_cmd, 1, 5) =
                    <<StrArg("build"), StrArg("-t"), StrArg(Unwrap(image_tag)),
                      StrArg("-f"), StrArg(files[1][1])>>
        /\ result \in {"err:config-not-found", "err:config", "err:render",
                        "err:write", "err:pixi.toml"} =>
              invocations = <<>>
        /\ (pc = "done" /\ invocations = <<>>) =>
              result \in {"err:config-not-found", "err:config", "err:render",
                          "err:write", "err:pixi.toml"}

\* docker build was run for the environment dev with the Dockerfile.dev
\* written in the same run.
C20_Witness ==
    /\ pc = "done"
    /\ cli.command = "build"
    /\ environment = "dev"
    /\ Len(files) = 1
    /\ files[1][1] = "Dockerfile.dev"
    /\ Len(invocations) = 1
    /\ invocations[1][4] = StrArg("-f")
    /\ invocations[1][5] = StrArg("Dockerfile.dev")

\* C21: for the same configuration, selected environment, tag of the command
\* line and pixi.toml, build and run resolve the same image reference or
\* both fail: whichever of the two commands is running, the reference it
\* resolved and put on the docker command line is the one the other command
\* computes from the same inputs, and it fails on pixi.toml exactly when the
\* other does.
C21_BuildAndRunSameReference ==
    (IsSome(config) /\ pc # "start") =>
        LET b == build_image_tag(Cfg, environment, cli.tag)
            r == run_image_tag(Cfg, environment, cli.tag)
        IN  /\ b.ok = r.ok
            /\ b.ok => b.val = r.val
            /\ IsSome(image_tag) =>
                  /\ b.ok /\ image_tag = Some(b.val)
                  /\ r.ok /\ image_tag = Some(r.val)
            /\ docker_cmd # <<>> =>
                  /\ ImageArgument = StrArg(b.val)
                  /\ ImageArgument = StrArg(r.val)
            /\ result = "err:pixi.toml" => (~b.ok /\ ~r.ok)
            /\ (pc \in {"classify", "assemble", "invoke"} \/ invocations # <<>>)
                  => (b.ok /\ r.ok)

\* docker run was given pixi-app:staging, the reference build computes for
\* the environment staging with no image name, no image tag and no pixi.toml.
C21_Witness ==
    /\ pc = "done"
    /\ invocations # <<>>
    /\ cli.command = "run"
    /\ cli.tag = None
    /\ environment = "staging"
    /\ pixiFile = NoFile
    /\ image_tag = Some("pixi-app:staging")
    /\ build_image_tag(Cfg, environment, cli.tag) = Ok("pixi-app:staging")
    /\ invocations[1][Len(invocations[1]) - Len(container_command)]
          = StrArg("pixi-app:staging")

\* The reference the chain gives when no metadata is available.
NoMetadataReference ==
    UnwrapOr(Cfg.docker.image_name, "pixi-app") \o ":"
        \o UnwrapOr(Cfg.docker.image_tag, environment)

\* pixi.toml gives neither a name nor a version: it is absent, or unreadable
\* or malformed, or it parses and has neither.
MetadataUnavailable == MetadataName = None /\ MetadataVersion = None

\* C2: a missing or malformed pixi.toml never blocks the image resolution of
\* build and run: the command never fails because of pixi.toml, and once the
\* resolution is passed the reference is the one the chain gives with no
\* metadata available.
C2_MetadataNeverBlocks ==
    /\ result # "err:pixi.toml"
    /\ (MetadataUnavailable /\ cli.tag = None
            /\ pc \in {"assemble", "classify", "invoke"}) =>
          image_tag = Some(NoMetadataReference)

---------------------------------------------------------------------------
(* SpecGenerate: pixi-docker generate over configurations with several      *)
(* overlays                                                                 *)

\* The overlay an environment may have: none, one that overrides nothing,
\* or the overlay of create_test_config.
OverlayChoices == {None, Some(EmptyOverlay), Some(TestOverlay)}

\* Configurations whose overlay keys are among OverlayNames.
GenerateConfigs ==
    { [docker |-> TestDocker,
       environments |-> [e \in {n \in OverlayNames : IsSome(f[n])} |->
                            Unwrap(f[e])]] :
         f \in [OverlayNames -> OverlayChoices] }

InitGenerate ==
    /\ \E a \in BOOLEAN, e \in {None, Some("dev")} :
         cli = [NoCli EXCEPT !.command = "generate", !.all = a,
                             !.environment = e]
    /\ configFile \in {NoFile, BadFile} \cup {GoodFile(c) : c \in GenerateConfigs}
    /\ pixiFile = NoFile
    /\ templateFiles = NoTemplates
    /\ template_content = ""
    /\ iterOrder = <<>>
    /\ badEnvs \in {{}} \cup {{n} : n \in OverlayNames}
    /\ dockerStatus = None
    /\ config = None
    /\ Started

NextGenerate ==
    \/ load_config
    \/ generate_setup
    \/ generate_all_default
    \/ generate_all_next
    \/ generate_all_return
    \/ generate_write_next
    \/ generate_write_done
    \/ generate_one

SpecGenerate == InitGenerate /\ [][NextGenerate]_vars

---------------------------------------------------------------------------
(* Claims about generate_all (checked under SpecGenerate) *)

\* The environments of the loaded configuration: the default one and the
\* overlay keys.
AllEnvironments == {Cfg.docker.environment} \cup DOMAIN Cfg.environments

\* What generate_all holds for the environments envs, in that order: one
\* pair per environment, named Dockerfile.<environment> and rendered from the
\* merged settings of that environment.
RenderingsOf(envs) ==
    [k \in 1..Len(envs) |->
        << "Dockerfile." \o envs[k],
           [template |-> template_content,
            context  |-> generate_context(Cfg, Some(envs[k]))] >>]

\* An order of the elements of S that depends on S alone.
FixedOrder(S) == CHOOSE p \in Perms(S) : TRUE

\* C9: generate_all produces exactly one rendering per distinct environment
\* name in {default environment} \cup overlay keys, each named
\* Dockerfile.<environment-name> and rendered with the merged settings of
\* that environment, the default environment's first, followed by the
\* overlay keys in a fixed order.
C9_OneRenderingEachInFixedOrder ==
    pc = "write_all" =>
        dockerfiles =
            RenderingsOf(<<Cfg.docker.environment>>
                         \o FixedOrder(DOMAIN Cfg.environments
                                       \ {Cfg.docker.environment}))

\* The overlay keys in the order the map is iterated in, the default
\* environment left out.
RECURSIVE OtherKeys(_)
OtherKeys(order) ==
    IF order = <<>> THEN <<>>
    ELSE IF Head(order) = Cfg.docker.environment THEN OtherKeys(Tail(order))
    ELSE <<Head(order)>> \o OtherKeys(Tail(order))

\* What does hold of generate_all: one rendering per environment, the
\* default environment's first, the others in the order in which this run
\* iterates the overlay map.
GenerateAllInMapOrder ==
    pc = "write_all" =>
        /\ dockerfiles =
              RenderingsOf(<<Cfg.docker.environment>> \o OtherKeys(iterOrder))
        /\ {dockerfiles[k][2].context.environment : k \in 1..Len(dockerfiles)}
              = AllEnvironments
        /\ Len(dockerfiles) = Cardinality(AllEnvironments)

\* C15: generate with neither --environment nor --all writes the Dockerfile
\* of the default environment only: no file of another name is ever written,
\* and a successful run has written exactly one file,
\* Dockerfile.<default environment>.
C15_DefaultEnvironmentOnly ==
    (cli.command = "generate" /\ ~cli.all /\ cli.environment = None) =>
        /\ \A k \in 1..Len(files) :
              files[k][1] = "Dockerfile." \o Cfg.docker.environment
        /\ (pc = "done" /\ result = "ok") => Len(files) = 1

\* The default environment has an overlay of its own.
DefaultHasOverlay == Cfg.docker.environment \in DOMAIN Cfg.environments

\* C23: generate_all never holds two artifacts of the same file name, and no
\* file name is written twice; when the overlay map has a key equal to the
\* default environment, the vector generate_all returns has that
\* environment once, as its first artifact, rendered with the overlay's
\* values where the overlay sets them and the global ones elsewhere.
C23_NoDuplicateFilename ==
    /\ \A i, j \in 1..Len(dockerfiles) :
          dockerfiles[i][1] = dockerfiles[j][1] => i = j
    /\ \A i, j \in 1..Len(files) : files[i][1] = files[j][1] => i = j
    /\ (pc = "write_all" /\ DefaultHasOverlay) =>
          LET default == Cfg.docker.environment
              o == Cfg.environments[default]
              g == Cfg.docker
              first == dockerfiles[1]
          IN  /\ {k \in 1..Len(dockerfiles) :
                     dockerfiles[k][1] = "Dockerfile." \o default
                        \/ dockerfiles[k][2].context.environment = default}
                    = {1}
              /\ first[2].context.ports =
                    IF o.ports # <<>> THEN o.ports ELSE g.ports
              /\ first[2].context.copy_files =
                    IF o.copy_files # <<>> THEN o.copy_files ELSE g.copy_files
              /\ first[2].context.multi_stage =
                    IF o.multi_stage # None THEN Unwrap(o.multi_stage)
                    ELSE g.multi_stage
              /\ first[2].context.build_command =
                    IF o.build_command # None THEN o.build_command
                    ELSE g.build_command
              /\ first[2].context.base_image =
                    IF o.base_image # None THEN o.base_image ELSE g.base_image
              /\ first[2].context.entrypoint =
                    IF o.entrypoint # None THEN o.entrypoint ELSE g.entrypoint

\* Every environment was generated for a configuration whose default
\* environment prod has the overlay with the port 3000 and no multi-stage
\* build, and another environment has an overlay too: Dockerfile.prod is
\* written once, first, with the port 3000.
C23_Witness ==
    /\ pc = "done"
    /\ result = "ok"
    /\ cli.command = "generate"
    /\ DefaultHasOverlay
    /\ Cfg.environments["prod"] = TestOverlay
    /\ Len(files) >= 2
    /\ files[1][1] = "Dockerfile.prod"
    /\ files[1][2].context.ports = <<3000>>
    /\ ~files[1][2].context.multi_stage
    /\ \A k \in 2..Len(files) : files[k][1] # "Dockerfile.prod"

\* generate runs generate_all: --all is given or no environment is.
MultiEnvironment == cli.all \/ ~IsSome(cli.environment)

\* C10: when the rendering of any one environment fails in a generation for
\* all environments, the command ends with that error (unless the output
\* directory could not be made, before anything is rendered), no environment
\* is left out of an otherwise successful run, and no Dockerfile is written,
\* not even one whose rendering succeeded before the failing one.
C10_RenderFailureAbortsAll ==
    (cli.command = "generate" /\ IsSome(config) /\ MultiEnvironment
        /\ AllEnvironments \cap badEnvs # {}) =>
            /\ files = <<>>
            /\ result \notin {"ok", "err:write"}
            /\ pc \notin {"write_all", "generate_one"}
            /\ pc = "done" =>
                  \/ result = "err:render"
                  \/ result = "err:mkdir" /\ out = None

\* The default environment was rendered, then the rendering of an overlay's
\* environment failed, and nothing is written.
C10_Witness ==
    /\ pc = "done"
    /\ cli.command = "generate"
    /\ result = "err:render"
    /\ MultiEnvironment
    /\ Len(dockerfiles) >= 1
    /\ dockerfiles[1][1] = "Dockerfile.prod"
    /\ Unwrap(effective).environment # "prod"
    /\ files = <<>>

====
